---- MODULE Spec2Model ----
(***************************************************************************)
(* Model of openslides/agenda/models.py: the agenda tree (Item) and the    *)
(* list of speakers of an item (Speaker, SpeakerManager).                  *)
(***************************************************************************)
EXTENDS Integers, Sequences, FiniteSets, TLC

\* ------------------------------------------------------------------ bounds
MaxItems == 3
MaxItemWeight == 1
MaxSpeakers == 4
MaxClock == 4
MaxCount == 2
MaxQueueItems == 2
MaxRequests == 2

\* ------------------------------------------------------- program constants
\* Python's None / a NULL column.
None == -1
AGENDA_ITEM == 1
ORGANIZATIONAL_ITEM == 2
ITEM_TYPE == {AGENDA_ITEM, ORGANIZATIONAL_ITEM}

ItemIds == 1..MaxItems
ParentIds == {None} \cup ItemIds
ItemWeights == 0..MaxItemWeight

\* Registered users, and django's AnonymousUser.
AnonymousUser == "AnonymousUser"
User == {"alice", "bob"}

VARIABLES
    items,      \* primary keys of the Item rows
    type,       \* Item.type
    weight,     \* Item.weight
    children,   \* Item.parent, read through related_name='children' in tree order
    nextItem,   \* the primary key the next Item row gets
    speakers,   \* the Speaker rows, by primary key
    clock,      \* the last value datetime.now() returned
    config,     \* openslides.config.api.config
    countdown,  \* the countdown commands fired by the last call, in order
    last,       \* the last call and what it returned or raised
    requests    \* the calls of begin_speach that run step by step

treeVars == <<items, type, weight, children, nextItem>>
vars == <<items, type, weight, children, nextItem, speakers, clock, config, countdown, last,
          requests>>

\* ---------------------------------------------------------------- helpers
Range(s) == {s[k] : k \in DOMAIN s}

Remove(s, x) == SelectSeq(s, LAMBDA y : y # x)

\* s with x put in front of position k (k = Len(s) + 1: at the end).
InsertAt(s, k, x) == SubSeq(s, 1, k - 1) \o <<x>> \o SubSeq(s, k, Len(s))

\* ------------------------------------------------------------------- tree
\* Item.parent: the parent of an existing item, None for a root node.
parent(i) ==
    IF \E p \in ItemIds : i \in Range(children[p])
    THEN CHOOSE p \in ItemIds : i \in Range(children[p])
    ELSE None

is_root_node(i) == parent(i) = None

RECURSIVE DescendantsWithin(_, _)
DescendantsWithin(i, n) ==
    IF n = 0 THEN {}
    ELSE LET c == Range(children[i])
         IN  c \cup UNION {DescendantsWithin(k, n - 1) : k \in c}

\* MPTTModel.get_descendants(): the nodes below i.
get_descendants(i) == DescendantsWithin(i, MaxItems)

\* MPTTModel.get_next_sibling(): the node after i under i's parent.
get_next_sibling(i) ==
    LET s == children[parent(i)]
        k == CHOOSE k \in DOMAIN s : s[k] = i
    IN  IF k = Len(s) THEN None ELSE s[k + 1]

\* MPTTModel.get_previous_sibling(): the node before i under i's parent.
get_previous_sibling(i) ==
    LET s == children[parent(i)]
        k == CHOOSE k \in DOMAIN s : s[k] = i
    IN  IF k = 1 THEN None ELSE s[k - 1]

\* Item.clean without its first test.
clean_descendants_only(t, p, i) ==
    ~ (t = ORGANIZATIONAL_ITEM
       /\ \E d \in get_descendants(i) : type[d] = AGENDA_ITEM)

\* Item.clean of an item of type t under parent p: TRUE when no
\* ValidationError is raised.
clean(t, p, i) ==
    /\ ~ (t = AGENDA_ITEM /\ p # None /\ type[p] = ORGANIZATIONAL_ITEM)
    /\ ~ (t = ORGANIZATIONAL_ITEM
          /\ \E d \in get_descendants(i) : type[d] = AGENDA_ITEM)

\* MPTTMeta.order_insertion_by = ['weight']: a saved node goes in front of
\* the first sibling of greater weight, and last when there is none.
OrderedInsertion(s, i, w) ==
    LET greater == {k \in DOMAIN s : weight[s[k]] > w}
        k == IF greater = {} THEN Len(s) + 1
             ELSE CHOOSE k \in greater : \A j \in greater : k <= j
    IN  InsertAt(s, k, i)

RECURSIVE SortedBy(_, _, _)
\* The members of S by ascending weight w, equal weights by ascending pri.
SortedBy(S, w, pri) ==
    IF S = {} THEN <<>>
    ELSE LET m == CHOOSE x \in S : \A y \in S :
                      \/ w[x] < w[y]
                      \/ w[x] = w[y] /\ pri[x] <= pri[y]
         IN  <<m>> \o SortedBy(S \ {m}, w, pri)

\* TreeManager.rebuild(): the tree order is computed again from the parent
\* column, every sibling list by order_by('weight').  The database decides
\* the order of rows of equal weight: pri is the order it returns them in.
rebuild(its, par, pri) ==
    [p \in ParentIds |-> SortedBy({i \in its : par[i] = p}, weight, pri)]

\* Saving a new Item of type t and weight w under p, after clean().
Insert(p, t, w) ==
    /\ nextItem <= MaxItems
    /\ p \in {None} \cup items
    /\ IF clean(t, p, nextItem)
       THEN /\ items' = items \cup {nextItem}
            /\ type' = [type EXCEPT ![nextItem] = t]
            /\ weight' = [weight EXCEPT ![nextItem] = w]
            /\ children' = [children EXCEPT ![p] = OrderedInsertion(@, nextItem, w)]
            /\ nextItem' = nextItem + 1
            /\ last' = [op |-> "insert", result |-> "ok"]
       ELSE /\ UNCHANGED treeVars
            /\ last' = [op |-> "insert", result |-> "ValidationError"]
    /\ UNCHANGED <<speakers, clock, config, countdown, requests>>

\* Giving item i the parent p: the move is refused when p is i or below i,
\* clean() validates the item under its new parent, and the save puts the
\* subtree among its new siblings by order_insertion_by.
Move(i, p) ==
    /\ i \in items
    /\ p \in {None} \cup items
    /\ IF p = i \/ p \in get_descendants(i)
       THEN /\ UNCHANGED treeVars
            /\ last' = [op |-> "move", result |-> "InvalidMove"]
       ELSE IF ~ clean(type[i], p, i)
       THEN /\ UNCHANGED treeVars
            /\ last' = [op |-> "move", result |-> "ValidationError"]
       ELSE /\ children' =
                   IF p = parent(i) THEN children
                   ELSE LET removed == [children EXCEPT ![parent(i)] = Remove(@, i)]
                        IN  [removed EXCEPT ![p] = OrderedInsertion(@, i, weight[i])]
            /\ UNCHANGED <<items, type, weight, nextItem>>
            /\ last' = [op |-> "move", result |-> "ok"]
    /\ UNCHANGED <<speakers, clock, config, countdown, requests>>

\* Assigning Item.type, after clean().
SetType(i, t) ==
    /\ i \in items
    /\ IF clean(t, parent(i), i)
       THEN /\ type' = [type EXCEPT ![i] = t]
            /\ last' = [op |-> "set_type", result |-> "ok"]
       ELSE /\ UNCHANGED type
            /\ last' = [op |-> "set_type", result |-> "ValidationError"]
    /\ UNCHANGED <<items, weight, children, nextItem, speakers, clock, config, countdown, requests>>

\* The parent column when the loop moves the children of i to the sibling in
\* front of i.
reparented_to_previous_sibling(i, j) ==
    IF parent(j) # i THEN parent(j)
    ELSE IF get_previous_sibling(i) # None THEN get_previous_sibling(i)
    ELSE parent(i)

\* The parent column when the loop moves no child.
not_reparented(i, j) == parent(j)

\* The parent column of j after the loop of Item.delete over the children of i.
Reparented(i, j) == IF parent(j) = i THEN parent(i) ELSE parent(j)

\* Item.delete(with_children).
delete(i, with_children) ==
    /\ i \in items
    /\ LET gone == IF with_children THEN {i} \cup get_descendants(i) ELSE {i}
           par == [j \in ItemIds |-> IF with_children THEN parent(j) ELSE Reparented(i, j)]
       IN  /\ items' = items \ gone
           /\ \E pri \in Permutations(ItemIds) :
                  children' = rebuild(items \ gone, par, pri)
           /\ speakers' = SelectSeq(speakers, LAMBDA s : s.item \notin gone)
           /\ last' = [op |-> "delete", result |-> "ok", item |-> i,
                       with_children |-> with_children, children |-> children[i]]
    /\ UNCHANGED <<type, weight, nextItem, clock, config, countdown, requests>>

\* ------------------------------------------------------------ conversions
Digits == <<"0", "1", "2", "3", "4", "5", "6", "7", "8", "9">>

RECURSIVE str(_)
\* Python's str(n) and '%d' % n.
str(n) ==
    IF n < 0 THEN "-" \o str(0 - n)
    ELSE IF n < 10 THEN Digits[n + 1]
    ELSE str(n \div 10) \o Digits[(n % 10) + 1]

\* -------------------------------------------------------------- numbering
RomanValues == <<10, 9, 5, 4, 1>>
RomanSymbols == <<"X", "IX", "V", "IV", "I">>

RECURSIVE RomanFrom(_, _)
RomanFrom(n, k) ==
    IF n <= 0 THEN ""
    ELSE IF n >= RomanValues[k] THEN RomanSymbols[k] \o RomanFrom(n - RomanValues[k], k)
    ELSE RomanFrom(n, k + 1)

\* openslides.utils.utils.to_roman, for the numbers below forty.
to_roman(n) == RomanFrom(n, 1)

RECURSIVE siblings_up_to(_)
\* The same loop without the test of the type.
siblings_up_to(prev_sibling) ==
    IF prev_sibling = None THEN 0
    ELSE 1 + siblings_up_to(get_previous_sibling(prev_sibling))

RECURSIVE agenda_items_up_to(_)
\* The while loop of Item._calc_sibling_no, started at prev_sibling.
agenda_items_up_to(prev_sibling) ==
    IF prev_sibling = None THEN 0
    ELSE (IF type[prev_sibling] = AGENDA_ITEM THEN 1 ELSE 0)
         + agenda_items_up_to(get_previous_sibling(prev_sibling))

\* Item._calc_sibling_no()
calc_sibling_no(i) == agenda_items_up_to(get_previous_sibling(i)) + 1

\* The last part formatted like the number of a root node.
child_part_by_system(sibling_no) ==
    IF config.agenda_numeral_system = "arabic" THEN str(sibling_no) ELSE to_roman(sibling_no)

\* The last part of the number of an item that is no root node: '%s' % sibling_no.
child_part(sibling_no) == str(sibling_no)

RECURSIVE calc_item_no(_)
\* Item.calc_item_no()
calc_item_no(i) ==
    IF type[i] = AGENDA_ITEM
    THEN IF is_root_node(i)
         THEN IF config.agenda_numeral_system = "arabic"
              THEN str(calc_sibling_no(i))
              ELSE to_roman(calc_sibling_no(i))
         ELSE calc_item_no(parent(i)) \o "." \o child_part(calc_sibling_no(i))
    ELSE ""

\* A call of Item.calc_item_no; last keeps the item and the number.
CalcItemNo(i) ==
    /\ i \in items
    /\ last' = [op |-> "calc_item_no", result |-> calc_item_no(i), item |-> i]
    /\ UNCHANGED <<items, type, weight, children, nextItem, speakers, clock, config, countdown, requests>>

\* config['agenda_numeral_system'] = system
set_numeral_system(system) ==
    /\ config.agenda_numeral_system # system
    /\ config' = [config EXCEPT !.agenda_numeral_system = system]
    /\ last' = [op |-> "config", result |-> "ok"]
    /\ UNCHANGED <<items, type, weight, children, nextItem, speakers, clock, countdown, requests>>

\* --------------------------------------------------------------- speakers
\* The primary keys of the Speaker rows.
SpeakerIds == DOMAIN speakers

\* The same query without the filter on the item.
actual_speakers_of_all_items(item) ==
    {k \in SpeakerIds : /\ speakers[k].end_time = None
                        /\ speakers[k].begin_time # None}

\* The same query with the two columns exchanged.
actual_speakers_exchanged(item) ==
    {k \in SpeakerIds : /\ speakers[k].item = item
                        /\ speakers[k].begin_time = None
                        /\ speakers[k].end_time # None}

\* Speaker.objects.filter(item=item, end_time=None).exclude(begin_time=None)
actual_speakers(item) ==
    {k \in SpeakerIds : /\ speakers[k].item = item
                        /\ speakers[k].end_time = None
                        /\ speakers[k].begin_time # None}

\* The aggregate of a list that has no weight.
weight__max_of_none(item) == None

\* The same aggregate over the rows of every item.
weight__max_all_items(item) ==
    LET ws == {speakers[k].weight : k \in SpeakerIds} \ {None}
    IN  IF ws = {} THEN None ELSE CHOOSE w \in ws : \A v \in ws : v <= w

\* models.Max('weight') over the rows of the item; NULL weights are skipped
\* and the aggregate of no value is None.
weight__max(item) ==
    LET ws == {speakers[k].weight : k \in {j \in SpeakerIds : speakers[j].item = item}} \ {None}
    IN  IF ws = {} THEN None ELSE CHOOSE w \in ws : \A v \in ws : v <= w

\* The same test on the entries that are speaking instead of those coming.
already_on_list_speaking(user, item) ==
    \E k \in SpeakerIds : /\ speakers[k].user = user
                          /\ speakers[k].item = item
                          /\ speakers[k].begin_time # None
                          /\ speakers[k].end_time = None

\* filter(user=user, item=item, begin_time=None).exists()
already_on_list(user, item) ==
    \E k \in SpeakerIds : /\ speakers[k].user = user
                          /\ speakers[k].item = item
                          /\ speakers[k].begin_time = None

\* SpeakerManager.add(user, item)
add(user, item) ==
    /\ item \in items
    /\ Len(speakers) < MaxSpeakers
    /\ IF already_on_list(user, item)
       THEN /\ UNCHANGED speakers
            /\ last' = [op |-> "add", result |-> "OpenSlidesError: already on the list"]
       ELSE IF user = AnonymousUser
       THEN /\ UNCHANGED speakers
            /\ last' = [op |-> "add", result |-> "OpenSlidesError: anonymous"]
       ELSE LET max == weight__max(item)
                w == IF max = None \/ max = 0 THEN 0 ELSE max
            IN  /\ speakers' = Append(speakers,
                       [user |-> user, item |-> item, begin_time |-> None,
                        end_time |-> None, weight |-> w + 1])
                /\ last' = [op |-> "add", result |-> "ok"]
    /\ countdown' = <<>>
    /\ UNCHANGED <<items, type, weight, children, nextItem, clock, config, requests>>

\* A call that fires no command.
no_commands == <<>>

\* The commands Speaker.end_speach fires.
end_commands == IF config.agenda_couple_countdown_and_speakers THEN <<"stop">> ELSE <<>>

\* The commands Speaker.begin_speach fires after its save.
begin_commands ==
    IF config.agenda_couple_countdown_and_speakers THEN <<"reset", "start">> ELSE <<>>

\* Speaker.end_speach() on the row k; last keeps the row as it was loaded.
end_speach(k) ==
    /\ k \in SpeakerIds
    /\ clock < MaxClock
    /\ clock' = clock + 1
    /\ speakers' = [speakers EXCEPT ![k].end_time = clock + 1]
    /\ countdown' = end_commands
    /\ last' = [op |-> "end_speach", result |-> "ok", was |-> speakers[k]]
    /\ UNCHANGED <<items, type, weight, children, nextItem, config, requests>>

\* Speaker.begin_speach() on the row k.  self is the row as it was loaded:
\* its save writes every column of self, end_time included.
begin_speach(k) ==
    /\ k \in SpeakerIds
    /\ LET self == speakers[k]
           actual == actual_speakers(self.item)
       IN  IF Cardinality(actual) > 1
           THEN /\ UNCHANGED <<speakers, clock>>
                /\ countdown' = <<>>
                /\ last' = [op |-> "begin_speach", result |-> "MultipleObjectsReturned"]
           ELSE IF actual = {}
           THEN /\ clock < MaxClock
                /\ clock' = clock + 1
                /\ speakers' = [speakers EXCEPT ![k] =
                       [self EXCEPT !.weight = None, !.begin_time = clock + 1]]
                /\ countdown' = begin_commands
                /\ last' = [op |-> "begin_speach", result |-> "ok"]
           ELSE LET a == CHOOSE a \in actual : TRUE
                    ended == [speakers EXCEPT ![a].end_time = clock + 1]
                IN  /\ clock + 1 < MaxClock
                    /\ clock' = clock + 2
                    /\ speakers' = [ended EXCEPT ![k] =
                           [self EXCEPT !.weight = None, !.begin_time = clock + 2]]
                    /\ countdown' = end_commands \o begin_commands
                    /\ last' = [op |-> "begin_speach", result |-> "ok"]
    /\ UNCHANGED <<items, type, weight, children, nextItem, config, requests>>

\* config['agenda_couple_countdown_and_speakers'] = b
set_couple(b) ==
    /\ config.agenda_couple_countdown_and_speakers # b
    /\ config' = [config EXCEPT !.agenda_couple_countdown_and_speakers = b]
    /\ countdown' = <<>>
    /\ last' = [op |-> "config", result |-> "ok"]
    /\ UNCHANGED <<items, type, weight, children, nextItem, speakers, clock, requests>>

\* ------------------------------------------------- begin_speach, by steps
\* The requests that call begin_speach at the same time.
Requests == 1..MaxRequests

\* No loaded row.
NoRow == [user |-> "", item |-> None, begin_time |-> None, end_time |-> None,
          weight |-> None]

\* A request that has not loaded its row.
NoRequest == [pc |-> "idle", pk |-> None, self |-> NoRow,
              actual_pk |-> None, actual_speaker |-> NoRow]

\* The request r loads the row k and calls begin_speach on it.
Load(r, k) ==
    /\ requests[r].pc = "idle"
    /\ k \in SpeakerIds
    /\ requests' = [requests EXCEPT ![r] =
           [NoRequest EXCEPT !.pc = "get", !.pk = k, !.self = speakers[k]]]
    /\ UNCHANGED <<items, type, weight, children, nextItem, speakers, clock, config,
                   countdown, last>>

\* The query of begin_speach for the actual speaker of the item, and .get().
GetActual(r) ==
    /\ requests[r].pc = "get"
    /\ LET actual == actual_speakers(requests[r].self.item)
       IN  IF Cardinality(actual) > 1
           THEN /\ requests' = [requests EXCEPT ![r].pc = "done"]
                /\ last' = [op |-> "begin_speach", result |-> "MultipleObjectsReturned"]
           ELSE IF actual = {}
           THEN /\ requests' = [requests EXCEPT ![r].pc = "save"]
                /\ UNCHANGED last
           ELSE LET a == CHOOSE a \in actual : TRUE
                IN  /\ requests' = [requests EXCEPT ![r].pc = "end",
                                                    ![r].actual_pk = a,
                                                    ![r].actual_speaker = speakers[a]]
                    /\ UNCHANGED last
    /\ UNCHANGED <<items, type, weight, children, nextItem, speakers, clock, config,
                   countdown>>

\* actual_speaker.end_speach(): the loaded row is stamped and saved.
EndActual(r) ==
    /\ requests[r].pc = "end"
    /\ clock < MaxClock
    /\ clock' = clock + 1
    /\ speakers' = [speakers EXCEPT ![requests[r].actual_pk] =
           [requests[r].actual_speaker EXCEPT !.end_time = clock + 1]]
    /\ countdown' = end_commands
    /\ requests' = [requests EXCEPT ![r].pc = "save"]
    /\ UNCHANGED <<items, type, weight, children, nextItem, config, last>>

\* self.weight = None, self.begin_time = now, self.save() and the countdown.
SaveSelf(r) ==
    /\ requests[r].pc = "save"
    /\ clock < MaxClock
    /\ clock' = clock + 1
    /\ speakers' = [speakers EXCEPT ![requests[r].pk] =
           [requests[r].self EXCEPT !.weight = None, !.begin_time = clock + 1]]
    /\ countdown' = begin_commands
    /\ requests' = [requests EXCEPT ![r].pc = "done"]
    /\ last' = [op |-> "begin_speach", result |-> "ok"]
    /\ UNCHANGED <<items, type, weight, children, nextItem, config>>

\* ------------------------------------------------------- list of speakers
RECURSIVE OrderBy(_, _)
\* The rows S in ascending order of key; rows of equal key by primary key.
OrderBy(S, key) ==
    IF S = {} THEN <<>>
    ELSE LET m == CHOOSE x \in S : \A y \in S :
                      \/ key[x] < key[y]
                      \/ key[x] = key[y] /\ x <= y
         IN  <<m>> \o OrderBy(S \ {m}, key)

\* speaker_query.exclude(begin_time=None).exclude(end_time=None).order_by('end_time')
old_speakers(item) ==
    OrderBy({k \in SpeakerIds : /\ speakers[k].item = item
                                /\ speakers[k].begin_time # None
                                /\ speakers[k].end_time # None},
            [k \in SpeakerIds |-> speakers[k].end_time])

\* speaker_query.filter(begin_time=None).order_by('weight')
coming_speakers(item) ==
    OrderBy({k \in SpeakerIds : /\ speakers[k].item = item
                                /\ speakers[k].begin_time = None},
            [k \in SpeakerIds |-> speakers[k].weight])

\* Item.get_next_speaker(): the first coming speaker by weight, None when the
\* list of coming speakers is empty.
get_next_speaker(item) ==
    LET coming == coming_speakers(item)
    IN  IF coming = <<>> THEN None ELSE coming[1]

\* old_speakers[last_old_speakers_count:]
old_window(old, old_speakers_count) ==
    LET last_old_speakers_count ==
            IF Len(old) - old_speakers_count > 0 THEN Len(old) - old_speakers_count ELSE 0
    IN  SubSeq(old, last_old_speakers_count + 1, Len(old))

\* A window that keeps the trailing coming speakers instead of the leading ones.
coming_window_trailing(coming, coming_speakers_count) ==
    LET stop == IF coming_speakers_count > 0 THEN coming_speakers_count ELSE 0
    IN  SubSeq(coming, IF Len(coming) - stop > 0 THEN Len(coming) - stop + 1 ELSE 1,
               Len(coming))

\* coming_speakers[:max(0, coming_speakers_count)]
coming_window(coming, coming_speakers_count) ==
    LET stop == IF coming_speakers_count > 0 THEN coming_speakers_count ELSE 0
    IN  SubSeq(coming, 1, IF stop < Len(coming) THEN stop ELSE Len(coming))

\* The prefix of the old speaker at index number of the loop.
old_prefix(old_speakers_count, number) == "-" \o str(old_speakers_count - number)

\* The index the loops mark as last_in_group.
last_number(count) == count - 1

\* Item.get_list_of_speakers(old_speakers_count, coming_speakers_count): the
\* returned list, when .get() finds at most one actual speaker.
get_list_of_speakers(item, old_count, coming_count) ==
    LET all_old == old_speakers(item)
        old_speakers_count == IF old_count = None THEN Len(all_old) ELSE old_count
        old == old_window(all_old, old_speakers_count)
        old_dicts == [n \in 1..Len(old) |->
                        [prefix |-> old_prefix(old_speakers_count, n - 1),
                         speaker |-> old[n],
                         type |-> "old_speaker",
                         first_in_group |-> (n - 1 = 0),
                         last_in_group |-> (n - 1 = last_number(old_speakers_count))]]
        actual == actual_speakers(item)
        actual_dicts == IF actual = {} THEN <<>>
                        ELSE <<[prefix |-> "0",
                                speaker |-> CHOOSE a \in actual : TRUE,
                                type |-> "actual_speaker",
                                first_in_group |-> TRUE,
                                last_in_group |-> TRUE]>>
        all_coming == coming_speakers(item)
        coming_speakers_count == IF coming_count = None THEN Len(all_coming) ELSE coming_count
        coming == coming_window(all_coming, coming_speakers_count)
        coming_dicts == [n \in 1..Len(coming) |->
                           [prefix |-> n - 1 + 1,
                            speaker |-> coming[n],
                            type |-> "coming_speaker",
                            first_in_group |-> (n - 1 = 0),
                            last_in_group |-> (n - 1 = last_number(coming_speakers_count))]]
    IN  old_dicts \o actual_dicts \o coming_dicts

\* A call of Item.get_list_of_speakers; last keeps the arguments and the list,
\* or the exception .get() raises on more than one actual speaker.
ListOfSpeakers(item, old_count, coming_count) ==
    /\ item \in items
    /\ last' = IF Cardinality(actual_speakers(item)) > 1
               THEN [op |-> "get_list_of_speakers", result |-> <<>>,
                     raised |-> "MultipleObjectsReturned",
                     item |-> item, old |-> old_count, coming |-> coming_count]
               ELSE [op |-> "get_list_of_speakers",
                     result |-> get_list_of_speakers(item, old_count, coming_count),
                     raised |-> "",
                     item |-> item, old |-> old_count, coming |-> coming_count]
    /\ UNCHANGED <<items, type, weight, children, nextItem, speakers, clock, config, countdown, requests>>

Init ==
    /\ items = {}
    /\ type = [i \in ItemIds |-> AGENDA_ITEM]
    /\ weight = [i \in ItemIds |-> 0]
    /\ children = [p \in ParentIds |-> <<>>]
    /\ nextItem = 1
    /\ speakers = <<>>
    /\ clock = 0
    /\ config = [agenda_numeral_system |-> "arabic",
                 agenda_couple_countdown_and_speakers |-> FALSE]
    /\ countdown = <<>>
    /\ last = [op |-> "none", result |-> "ok"]
    /\ requests = [r \in Requests |-> NoRequest]

NextTree ==
    \/ \E p \in ParentIds, t \in ITEM_TYPE, w \in ItemWeights : Insert(p, t, w)
    \/ \E i \in ItemIds, p \in ParentIds : Move(i, p)
    \/ \E i \in ItemIds, t \in ITEM_TYPE : SetType(i, t)
    \/ \E i \in ItemIds, wc \in BOOLEAN : delete(i, wc)
    \/ \E system \in {"arabic", "roman"} : set_numeral_system(system)
    \/ \E i \in ItemIds : CalcItemNo(i)

SpecTree == Init /\ [][NextTree]_vars

NextQueue ==
    \/ nextItem <= MaxQueueItems /\ Insert(None, AGENDA_ITEM, 0)
    \/ \E b \in BOOLEAN : set_couple(b)
    \/ \E u \in User \cup {AnonymousUser}, i \in ItemIds : add(u, i)
    \/ \E k \in 1..MaxSpeakers : begin_speach(k)
    \/ \E k \in 1..MaxSpeakers : end_speach(k)

Spec == Init /\ [][NextQueue]_vars

\* Two requests that call begin_speach on the rows of the first item, step by
\* step, with nothing that keeps their steps apart.
NextConcurrent ==
    \/ nextItem <= 1 /\ Insert(None, AGENDA_ITEM, 0)
    \/ \E u \in User : add(u, 1)
    \/ \E r \in Requests, k \in 1..MaxSpeakers : Load(r, k)
    \/ \E r \in Requests : GetActual(r)
    \/ \E r \in Requests : EndActual(r)
    \/ \E r \in Requests : SaveSelf(r)

SpecConcurrent == Init /\ [][NextConcurrent]_vars

Counts == {None} \cup 0..MaxCount

\* The list of speakers of the first item, and the calls that read it.
NextView ==
    \/ nextItem <= 1 /\ Insert(None, AGENDA_ITEM, 0)
    \/ \E u \in User : add(u, 1)
    \/ \E k \in 1..MaxSpeakers : begin_speach(k)
    \/ \E k \in 1..MaxSpeakers : end_speach(k)
    \/ \E oc \in Counts, cc \in Counts : ListOfSpeakers(1, oc, cc)

SpecView == Init /\ [][NextView]_vars

\* ============================================================ properties
\* The phase of a Speaker row.
Phase(r) ==
    IF r.begin_time = None THEN "coming"
    ELSE IF r.end_time = None THEN "speaking"
    ELSE "spoken"

EntriesIn(item, phase) ==
    {k \in DOMAIN speakers : speakers[k].item = item /\ Phase(speakers[k]) = phase}

Coupled == config.agenda_couple_countdown_and_speakers

\* C1: in every state reached by add, begin_speach and end_speach calls on
\* entries in any phase, every item has at most one entry that is speaking.
C1_AtMostOneSpeaking ==
    \A i \in ItemIds : Cardinality(EntriesIn(i, "speaking")) <= 1

\* begin_speach has ended one speaker of an item and started another one.
C1_Witness ==
    /\ last.op = "begin_speach"
    /\ last.result = "ok"
    /\ \E i \in ItemIds : /\ EntriesIn(i, "speaking") # {}
                          /\ EntriesIn(i, "spoken") # {}
                          /\ EntriesIn(i, "coming") # {}

\* C2: begin_speach on a coming entry b while a is speaking on the same item
\* leaves a spoken and b speaking with no weight, and with the coupling flag
\* set fires stop, reset, start in this order; with nobody speaking it fires
\* reset, start only.
C2_BeginSpeechPromotes ==
    [][\A b \in DOMAIN speakers :
          (begin_speach(b) /\ Phase(speakers[b]) = "coming")
          => LET was == EntriesIn(speakers[b].item, "speaking")
             IN  /\ was # {}
                    => /\ Phase(speakers'[b]) = "speaking"
                       /\ speakers'[b].weight = None
                       /\ speakers'[b].begin_time # None
                       /\ \A a \in was : /\ Phase(speakers'[a]) = "spoken"
                                         /\ speakers'[a].end_time # None
                       /\ Coupled => countdown' = <<"stop", "reset", "start">>
                 /\ (was = {} /\ Coupled) => countdown' = <<"reset", "start">>]_vars

\* C3 as stated: add is refused, and changes nothing, when the user has a
\* coming or a speaking entry on the item, so that no user ever has two
\* entries on one item that are not spoken.
NoTwoEntriesIn(phases) ==
    \A j, k \in DOMAIN speakers :
        (/\ j # k
         /\ speakers[j].user = speakers[k].user
         /\ speakers[j].item = speakers[k].item
         /\ Phase(speakers[j]) \in phases)
        => Phase(speakers[k]) \notin phases

HasEntryIn(user, item, phases) ==
    \E k \in DOMAIN speakers : /\ speakers[k].user = user
                               /\ speakers[k].item = item
                               /\ Phase(speakers[k]) \in phases

AddRefusals(phases) ==
    \A u \in User \cup {AnonymousUser}, i \in ItemIds :
        (add(u, i) /\ HasEntryIn(u, i, phases))
        => /\ last'.result = "OpenSlidesError: already on the list"
           /\ speakers' = speakers

C3_Original ==
    [][AddRefusals({"coming", "speaking"}) /\ NoTwoEntriesIn({"coming", "speaking"})']_vars

\* C3 amended: add is refused, and changes nothing, when the user has a
\* coming entry on the item; a registered user without one is appended, so a
\* user who is speaking can be put on the list again.  No user ever has two
\* coming entries on one item.
C3_Amended ==
    [][/\ AddRefusals({"coming"})
       /\ NoTwoEntriesIn({"coming"})'
       /\ \A u \in User, i \in ItemIds :
             (add(u, i) /\ ~ HasEntryIn(u, i, {"coming"}))
             => /\ last'.result = "ok"
                /\ Len(speakers') = Len(speakers) + 1
                /\ speakers'[Len(speakers')].user = u
                /\ speakers'[Len(speakers')].item = i]_vars

\* add was refused for a user who is on the list, and another user of the
\* item has both an entry that is speaking and one that is coming.
C3_Witness ==
    /\ last.op = "add"
    /\ last.result = "OpenSlidesError: already on the list"
    /\ \E j, k \in DOMAIN speakers : /\ j # k
                                     /\ speakers[j].user = speakers[k].user
                                     /\ speakers[j].item = speakers[k].item
                                     /\ Phase(speakers[j]) = "speaking"
                                     /\ Phase(speakers[k]) = "coming"

RECURSIVE AncestorsWithin(_, _)
\* The items met on the way from i to its root, in at most n steps.
AncestorsWithin(i, n) ==
    IF n = 0 \/ parent(i) = None THEN {}
    ELSE {parent(i)} \cup AncestorsWithin(parent(i), n - 1)

Ancestors(i) == AncestorsWithin(i, MaxItems + 1)

\* Every item is in one sibling list, once, and no item is above itself.
TreeAcyclic ==
    /\ \A p \in ParentIds : /\ Range(children[p]) \subseteq items
                            /\ p \notin items => children[p] = <<>> \/ p = None
                            /\ \A j, k \in DOMAIN children[p] :
                                   children[p][j] = children[p][k] => j = k
    /\ \A i \in items : /\ Cardinality({p \in ParentIds : i \in Range(children[p])}) = 1
                        /\ i \notin Ancestors(i)

\* No agenda item is below an organizational item.
TypeInvariant ==
    \A i \in items :
        type[i] = AGENDA_ITEM => \A a \in Ancestors(i) : type[a] # ORGANIZATIONAL_ITEM

\* C4: after every operation of a sequence of moves the tree is acyclic and
\* no agenda item is below an organizational item; a move under the item
\* itself, under one of its descendants, or of an agenda item under an
\* organizational item is refused and leaves the tree as it was, every other
\* move is applied.
C4_MovesKeepTreeValid ==
    [][/\ (TreeAcyclic /\ TypeInvariant)'
       /\ \A i \in ItemIds, p \in ParentIds :
             Move(i, p)
             => IF \/ p = i
                   \/ p # None /\ i \in Ancestors(p)
                   \/ p # None /\ type[i] = AGENDA_ITEM /\ type[p] = ORGANIZATIONAL_ITEM
                THEN last'.result # "ok" /\ UNCHANGED treeVars
                ELSE last'.result = "ok" /\ parent(i)' = p]_vars

\* A move of an agenda item under an organizational item was refused in the
\* tree of the example: a root agenda item, its child, a root organizational
\* item.
C4_Witness ==
    /\ last.op = "move"
    /\ last.result = "ValidationError"
    /\ \E a, b, c \in items :
          /\ type[a] = AGENDA_ITEM /\ parent(a) = None
          /\ type[b] = AGENDA_ITEM /\ parent(b) = a
          /\ type[c] = ORGANIZATIONAL_ITEM /\ parent(c) = None

\* The place of i among the agenda items of its sibling list.
SiblingPosition(i) ==
    LET s == children[parent(i)]
        at == CHOOSE k \in DOMAIN s : s[k] = i
    IN  1 + Cardinality({k \in 1..(at - 1) : type[s[k]] = AGENDA_ITEM})

\* NumberFormatter.format(position, system)
Format(position, system) ==
    IF system = "arabic" THEN str(position) ELSE to_roman(position)

NumberedAgendaItem ==
    /\ last.op = "calc_item_no"
    /\ type[last.item] = AGENDA_ITEM

\* C5 as stated: the number of an agenda item that is no root is the number
\* of its parent, a dot, and its sibling position in the configured numeral
\* system.
C5_Original ==
    (NumberedAgendaItem /\ parent(last.item) # None)
    => last.result = calc_item_no(parent(last.item)) \o "."
                     \o Format(SiblingPosition(last.item), config.agenda_numeral_system)

\* C5 amended: the number of an agenda item that is no root is the number of
\* its parent, a dot, and its sibling position in decimal digits, whatever
\* the configured numeral system; only the number of a root item is in the
\* configured system.
C5_Amended ==
    NumberedAgendaItem
    => last.result =
          IF parent(last.item) = None
          THEN Format(SiblingPosition(last.item), config.agenda_numeral_system)
          ELSE calc_item_no(parent(last.item)) \o "." \o str(SiblingPosition(last.item))

\* Under the roman system, the number of a second agenda child was computed.
C5_Witness ==
    /\ NumberedAgendaItem
    /\ config.agenda_numeral_system = "roman"
    /\ parent(last.item) # None
    /\ SiblingPosition(last.item) = 2

\* C6: the number of an organizational item is the empty string, and the
\* sibling position of an agenda item is one more than the number of agenda
\* items in front of it under its parent.
C6_SiblingPosition ==
    last.op = "calc_item_no"
    => IF type[last.item] = ORGANIZATIONAL_ITEM
       THEN last.result = ""
       ELSE LET position == SiblingPosition(last.item)
                front == IF parent(last.item) = None THEN ""
                         ELSE calc_item_no(parent(last.item)) \o "."
            IN  /\ calc_sibling_no(last.item) = position
                /\ last.result \in {front \o str(position), front \o to_roman(position)}

\* The number of an agenda item with an organizational item in front of it
\* was computed.
C6_Witness ==
    /\ NumberedAgendaItem
    /\ \E k \in DOMAIN children[parent(last.item)] :
          /\ children[parent(last.item)][k] = last.item
          /\ k > SiblingPosition(last.item)

Before(s, a, b) == \E j, k \in DOMAIN s : j < k /\ s[j] = a /\ s[k] = b

\* What delete(x, with_children=False) does to the items and their parents.
DeleteReparents(x) ==
    /\ items' = items \ {x}
    /\ \A c \in Range(children[x]) : parent(c)' = parent(x)
    /\ \A j \in items \ ({x} \cup Range(children[x])) : parent(j)' = parent(j)

Listed == last.op = "get_list_of_speakers" /\ last.raised = ""

\* The positions of the returned list that hold the rows of one group.
GroupIndexes(t) == {n \in DOMAIN last.result : last.result[n].type = t}

\* The 1-based position of row n within its group.
PositionInGroup(n) ==
    Cardinality({m \in GroupIndexes(last.result[n].type) : m <= n})

Groups == {"old_speaker", "actual_speaker", "coming_speaker"}

\* C8 as stated: the prefixes of the returned spoken group count down from
\* the size of the returned group to 1, whatever the requested count.
C8_Original ==
    Listed =>
        LET G == GroupIndexes("old_speaker")
        IN  \A n \in G :
                last.result[n].prefix = "-" \o str(Cardinality(G) - PositionInGroup(n) + 1)

\* C9 as stated: in every returned group exactly the first row is marked
\* first_in_group and exactly the last row is marked last_in_group.
C9_Original ==
    Listed =>
        \A t \in Groups :
            LET G == GroupIndexes(t)
            IN  \A n \in G :
                    /\ last.result[n].first_in_group = (\A m \in G : n <= m)
                    /\ last.result[n].last_in_group = (\A m \in G : m <= n)

\* The number of rows a window of the requested count keeps out of available.
Kept(count, available) ==
    IF count = None \/ count > available THEN available ELSE count

\* C10: the list is the last min(oldCount, #spoken) spoken entries by
\* ascending end time, then the speaking entry, if any, with prefix "0", then
\* the first min(comingCount, #coming) coming entries by ascending weight with
\* prefixes 1, 2, ...; where the requested count of spoken entries does not
\* exceed the spoken entries, their prefixes count down to -1.
C10_ListViewGroups ==
    Listed =>
        LET R == last.result
            spoken == EntriesIn(last.item, "spoken")
            speaking == EntriesIn(last.item, "speaking")
            coming == EntriesIn(last.item, "coming")
            ko == Kept(last.old, Cardinality(spoken))
            ka == Cardinality(speaking)
            kc == Kept(last.coming, Cardinality(coming))
        IN  /\ Len(R) = ko + ka + kc
            /\ \A n \in 1..ko :
                   /\ R[n].type = "old_speaker"
                   /\ R[n].speaker \in spoken
                   /\ Cardinality({k \in spoken :
                          speakers[k].end_time > speakers[R[n].speaker].end_time}) = ko - n
                   /\ (last.old = None \/ last.old <= Cardinality(spoken))
                      => R[n].prefix = "-" \o str(ko - n + 1)
            /\ ka = 1 =>
                   /\ R[ko + 1].type = "actual_speaker"
                   /\ R[ko + 1].speaker \in speaking
                   /\ R[ko + 1].prefix = "0"
            /\ \A j \in 1..kc :
                   /\ R[ko + ka + j].type = "coming_speaker"
                   /\ R[ko + ka + j].speaker \in coming
                   /\ Cardinality({k \in coming :
                          speakers[k].weight < speakers[R[ko + ka + j].speaker].weight}) = j - 1
                   /\ R[ko + ka + j].prefix = j

\* A list with the three groups in it, cut down by a count below the entries
\* of a group.
C10_Witness ==
    /\ Listed
    /\ \A t \in Groups : GroupIndexes(t) # {}
    /\ last.coming # None
    /\ last.coming < Cardinality(EntriesIn(last.item, "coming"))
    /\ Len(last.result) < Cardinality({k \in DOMAIN speakers : speakers[k].item = last.item})

\* The number of times the command c is in the sequence s.
Count(s, c) == Cardinality({n \in DOMAIN s : s[n] = c})

\* The entries that go from the phase from to the phase to in a step.
Moving(from, to) ==
    {k \in DOMAIN speakers : /\ Phase(speakers[k]) = from
                             /\ Phase(speakers'[k]) = to}

\* C11 as stated: with the countdown coupled, a call of begin_speach or
\* end_speach fires one reset and one start for every entry it takes from
\* coming to speaking and one stop for every entry it takes from speaking to
\* spoken, and no other command; uncoupled, it fires no command.
C11_Original ==
    [][(\E k \in DOMAIN speakers : begin_speach(k) \/ end_speach(k))
       => IF Coupled
          THEN /\ Count(countdown', "reset") = Cardinality(Moving("coming", "speaking"))
               /\ Count(countdown', "start") = Cardinality(Moving("coming", "speaking"))
               /\ Count(countdown', "stop") = Cardinality(Moving("speaking", "spoken"))
          ELSE countdown' = <<>>]_vars

\* C13: end_speach on a spoken entry leaves it spoken with its begin time,
\* stamps its end time with the current time, changes no other entry, and
\* fires stop once more when the countdown is coupled.
C13_EndSpeechRestamps ==
    [][\A k \in DOMAIN speakers :
          (end_speach(k) /\ Phase(speakers[k]) = "spoken")
          => /\ last'.result = "ok"
             /\ Phase(speakers'[k]) = "spoken"
             /\ speakers'[k].begin_time = speakers[k].begin_time
             /\ speakers'[k].end_time = clock'
             /\ clock' > clock
             /\ speakers' = [speakers EXCEPT ![k].end_time = clock']
             /\ countdown' = IF Coupled THEN <<"stop">> ELSE <<>>]_vars

\* end_speach was called, with the countdown coupled, on an entry that was
\* spoken, and fired stop.
C13_Witness ==
    /\ last.op = "end_speach"
    /\ Phase(last.was) = "spoken"
    /\ Coupled
    /\ countdown = <<"stop">>
    /\ \E k \in DOMAIN speakers : /\ speakers[k].begin_time = last.was.begin_time
                                  /\ speakers[k].end_time = clock
                                  /\ speakers[k].end_time > last.was.end_time

\* C12 as stated: when two requests, begun on two different coming entries of
\* one item, have both completed begin_speach, whatever the order of their
\* steps, the item has at most one speaking entry.
C12_Original ==
    (/\ \A r \in Requests : requests[r].pc = "done"
     /\ requests[1].pk # requests[2].pk
     /\ requests[1].self.item = requests[2].self.item
     /\ \A r \in Requests : Phase(requests[r].self) = "coming")
    => Cardinality(EntriesIn(requests[1].self.item, "speaking")) <= 1

\* The largest member of a non-empty set of integers.
Largest(S) == CHOOSE w \in S : \A v \in S : v <= w

\* C14: an accepted add appends a coming entry whose weight is 1 plus the
\* largest weight of the coming entries of the item, and 1 when the item has
\* none, whatever the entries of other phases and of other items; the new
\* entry is after every coming entry of the item.
C14_NewWeight ==
    [][\A u \in User, i \in ItemIds :
          (add(u, i) /\ last'.result = "ok")
          => LET coming == EntriesIn(i, "coming")
                 new == speakers'[Len(speakers')]
             IN  /\ Len(speakers') = Len(speakers) + 1
                 /\ new.item = i /\ new.user = u
                 /\ Phase(new) = "coming"
                 /\ new.weight = IF coming = {} THEN 1
                                 ELSE 1 + Largest({speakers[k].weight : k \in coming})
                 /\ \A k \in coming : speakers[k].weight < new.weight]_vars

\* An entry was added with weight 1 to an item that has an entry past the
\* coming phase, while another item has an entry of a greater weight.
C14_Witness ==
    /\ last.op = "add" /\ last.result = "ok"
    /\ LET n == Len(speakers)
       IN  /\ n > 0
           /\ speakers[n].weight = 1
           /\ \E k \in 1..n : /\ speakers[k].item = speakers[n].item
                              /\ Phase(speakers[k]) # "coming"
           /\ \E k \in 1..n : /\ speakers[k].item # speakers[n].item
                              /\ speakers[k].weight > 1

\* C18: an entry has a weight exactly when it is coming, which is when its
\* begin time is not set, and the coming entries of one item have different
\* weights.
C18_WeightWhileComing ==
    /\ \A k \in DOMAIN speakers :
          /\ (speakers[k].weight # None) <=> (Phase(speakers[k]) = "coming")
          /\ speakers[k].begin_time # None => speakers[k].weight = None
    /\ \A j, k \in DOMAIN speakers :
          (/\ j # k
           /\ speakers[j].item = speakers[k].item
           /\ Phase(speakers[j]) = "coming"
           /\ Phase(speakers[k]) = "coming")
          => speakers[j].weight # speakers[k].weight

\* An item has two coming entries, added after an entry of the item began to
\* speak.
C18_Witness ==
    \E i \in items :
        /\ Cardinality(EntriesIn(i, "coming")) >= 2
        /\ \E k \in DOMAIN speakers :
              /\ speakers[k].item = i
              /\ speakers[k].begin_time # None
              /\ \A j \in EntriesIn(i, "coming") : k < j

\* The place of the item i in the sibling list s.
IndexIn(s, i) == CHOOSE k \in DOMAIN s : s[k] = i

\* C15: an item inserted as the last sibling under its parent leaves the
\* number of every item that was there unchanged; an agenda item inserted at
\* an earlier place adds one to the sibling number of every agenda sibling
\* that was at or after that place and leaves the siblings in front of it
\* their sibling number.
C15_InsertionShifts ==
    [][\A p \in ParentIds, t \in ITEM_TYPE, w \in ItemWeights :
          (Insert(p, t, w) /\ last'.result = "ok")
          => LET s == children'[p]
                 pos == IndexIn(s, nextItem)
             IN  /\ pos = Len(s)
                    => \A i \in items : calc_item_no(i)' = calc_item_no(i)
                 /\ t = AGENDA_ITEM
                    => \A x \in Range(children[p]) :
                          IF IndexIn(s, x) > pos
                          THEN type[x] = AGENDA_ITEM
                               => calc_sibling_no(x)' = calc_sibling_no(x) + 1
                          ELSE calc_sibling_no(x)' = calc_sibling_no(x)]_vars

\* An agenda item was inserted in front of an agenda sibling and behind
\* another sibling.
C15_Witness ==
    /\ last.op = "insert" /\ last.result = "ok"
    /\ LET new == nextItem - 1
       IN  /\ new \in items
           /\ type[new] = AGENDA_ITEM
           /\ get_previous_sibling(new) # None
           /\ get_next_sibling(new) # None
           /\ type[get_next_sibling(new)] = AGENDA_ITEM

\* C16: a delete without the children, in a tree that is acyclic and has no
\* agenda item below an organizational item, leaves such a tree: no agenda
\* item is below an organizational item, and every item is in the sibling
\* list of the root or of an item that exists.
C16_DeleteKeepsTreeValid ==
    [][\A x \in ItemIds :
          (delete(x, FALSE) /\ TreeAcyclic /\ TypeInvariant)
          => /\ TreeAcyclic'
             /\ TypeInvariant'
             /\ \A i \in items' : parent(i)' \in {None} \cup items']_vars

\* An item below another item was deleted without its children, which are now
\* the children of that item.
C16_Witness ==
    /\ last.op = "delete"
    /\ ~ last.with_children
    /\ Len(last.children) >= 1
    /\ \A c \in Range(last.children) : c \in items /\ parent(c) # None

\* The steps of the life of an entry: coming, then speaking, then spoken.
PhaseSteps == {<<"coming", "speaking">>, <<"speaking", "spoken">>}

\* C17 as stated: a call changes the phase of an entry only from coming to
\* speaking or from speaking to spoken; no entry goes back, and none goes from
\* coming to spoken.
C17_Original ==
    [][\A k \in DOMAIN speakers :
          \/ Phase(speakers'[k]) = Phase(speakers[k])
          \/ <<Phase(speakers[k]), Phase(speakers'[k])>> \in PhaseSteps]_vars

\* C20: add, begin_speach and end_speach change no entry of another item than
\* the one they are called for; add changes no entry that was there,
\* end_speach changes its own entry only, and begin_speach changes only its
\* own entry and the entry that was speaking on the item.
C20_LocalToItem ==
    [][/\ \A u \in User \cup {AnonymousUser}, i \in ItemIds :
             add(u, i)
             => /\ \A j \in DOMAIN speakers : speakers'[j] = speakers[j]
                /\ \A j \in DOMAIN speakers' \ DOMAIN speakers : speakers'[j].item = i
       /\ \A k \in DOMAIN speakers :
             /\ end_speach(k)
                => \A j \in DOMAIN speakers \ {k} : speakers'[j] = speakers[j]
             /\ begin_speach(k)
                => /\ DOMAIN speakers' = DOMAIN speakers
                   /\ \A j \in DOMAIN speakers \ {k} :
                         \/ speakers'[j] = speakers[j]
                         \/ /\ speakers[j].item = speakers[k].item
                            /\ Phase(speakers[j]) = "speaking"]_vars

\* begin_speach was called for an entry of one item while an entry of another
\* item was speaking, and both are speaking.
C20_Witness ==
    /\ last.op = "begin_speach" /\ last.result = "ok"
    /\ \E j, k \in DOMAIN speakers :
          /\ speakers[j].item # speakers[k].item
          /\ Phase(speakers[j]) = "speaking"
          /\ Phase(speakers[k]) = "speaking"
          /\ speakers[j].begin_time < speakers[k].begin_time
          /\ speakers[k].begin_time = clock

\* An entry that begin_speach has made speak.
Speaks(r) == Phase(r) = "speaking"

\* C19 as stated: get_next_speaker is None exactly when the item has no
\* coming entry, and else the coming entry of the lowest weight, which is the
\* one added first; begin_speach on it makes it speak and takes it, and no
\* other entry, out of the coming entries, so that the entries speak in the
\* order they were added and the list is empty after as many calls as it had
\* coming entries.
C19_Original ==
    [][\A i \in items :
          LET n == get_next_speaker(i)
              coming == EntriesIn(i, "coming")
          IN  /\ (n = None) <=> (coming = {})
              /\ n # None
                 => /\ n \in coming
                    /\ \A k \in coming : /\ speakers[n].weight <= speakers[k].weight
                                         /\ n <= k
                    /\ begin_speach(n)
                       => /\ Speaks(speakers'[n])
                          /\ {k \in DOMAIN speakers' :
                                 /\ speakers'[k].item = i
                                 /\ Phase(speakers'[k]) = "coming"} = coming \ {n}]_vars

====
